---------------------------- MODULE Spec2Model ----------------------------
(***************************************************************************)
(* Model of the recurring-date-range parser and expander of the calendar   *)
(* generator: parse_date_range (src/src/main.rs 139-207) and               *)
(* DateIter::next (src/src/main.rs 50-90).                                 *)
(*                                                                         *)
(* A specifier is a sequence of characters.  Machine integers wider than   *)
(* the model checker's own are kept as little-endian sequences of 16-bit   *)
(* limbs (2 limbs for u32, 4 limbs for i64), so that decimal parsing, the  *)
(* u32 product 12 * years_offset and the day-to-duration conversion behave *)
(* at their real widths.                                                   *)
(***************************************************************************)
EXTENDS Integers, Sequences, FiniteSets, TLC

---------------------------------------------------------------------------
(* Characters *)

AsciiDigits == {"0", "1", "2", "3", "4", "5", "6", "7", "8", "9"}

\* One decimal digit outside ASCII (ARABIC-INDIC DIGIT THREE).  The regex
\* class \d is Unicode-aware, the integer parsers accept ASCII digits only.
ArabicThree == "U+0663"

\* The characters the regex class \d matches.
IsDigit(c) == c \in AsciiDigits \cup {ArabicThree}

DigitVal(c) ==
    CASE c = "0" -> 0 [] c = "1" -> 1 [] c = "2" -> 2 [] c = "3" -> 3
      [] c = "4" -> 4 [] c = "5" -> 5 [] c = "6" -> 6 [] c = "7" -> 7
      [] c = "8" -> 8 [] c = "9" -> 9

DigitChar(n) ==
    CASE n = 0 -> "0" [] n = 1 -> "1" [] n = 2 -> "2" [] n = 3 -> "3"
      [] n = 4 -> "4" [] n = 5 -> "5" [] n = 6 -> "6" [] n = 7 -> "7"
      [] n = 8 -> "8" [] n = 9 -> "9"

---------------------------------------------------------------------------
(* Fixed-width machine integers as 16-bit limbs, least significant first *)

Base == 2 ^ 16
HalfBase == 2 ^ 15
I32Max == (HalfBase - 1) * Base + (Base - 1)

U32Limbs == 2
I64Limbs == 4

Zero(n) == [i \in 1..n |-> 0]

\* x * k + a, limb by limb: the low Len(x) limbs and the carry out of them.
RECURSIVE MulAddFrom(_, _, _, _, _)
MulAddFrom(x, k, i, carry, acc) ==
    IF i > Len(x)
    THEN [limbs |-> acc, carry |-> carry]
    ELSE LET t == x[i] * k + carry
         IN  MulAddFrom(x, k, i + 1, t \div Base, Append(acc, t % Base))

MulAdd(x, k, a) == MulAddFrom(x, k, 1, a, <<>>)

\* Comparison from the most significant limb down (x and y of equal length).
RECURSIVE BigCmpFrom(_, _, _)
BigCmpFrom(x, y, i) ==
    IF i = 0 THEN 0
    ELSE IF x[i] < y[i] THEN -1
    ELSE IF x[i] > y[i] THEN 1
    ELSE BigCmpFrom(x, y, i - 1)

BigLE(x, y) == BigCmpFrom(x, y, Len(x)) <= 0

BigIsZero(x) == \A i \in 1..Len(x) : x[i] = 0

\* The value fits a non-negative i32.
FitsI32(x) == x[2] < HalfBase /\ \A i \in 3..Len(x) : x[i] = 0

\* The value as a model integer; defined where FitsI32 holds.
ToInt(x) == x[2] * Base + x[1]

\* A model integer in 0..I32Max as limbs of width n.
FromInt(v, n) == [i \in 1..n |-> IF i = 1 THEN v % Base
                                  ELSE IF i = 2 THEN v \div Base ELSE 0]

\* str::parse for an integer type of n limbs whose largest value has top
\* limb topMax: each digit is accumulated with a checked multiply-by-ten
\* and a checked add; a character that is no ASCII digit, an empty string
\* and an overflow are errors.
RECURSIVE ParseFrom(_, _, _, _)
ParseFrom(s, i, acc, topMax) ==
    IF i > Len(s)
    THEN [ok |-> TRUE, val |-> acc, kind |-> "none"]
    ELSE IF s[i] \notin AsciiDigits
    THEN [ok |-> FALSE, val |-> acc, kind |-> "InvalidDigit"]
    ELSE LET r == MulAdd(acc, 10, DigitVal(s[i]))
         IN  IF r.carry > 0 \/ r.limbs[Len(acc)] > topMax
             THEN [ok |-> FALSE, val |-> acc, kind |-> "PosOverflow"]
             ELSE ParseFrom(s, i + 1, r.limbs, topMax)

ParseInt(s, n, topMax) ==
    IF Len(s) = 0
    THEN [ok |-> FALSE, val |-> Zero(n), kind |-> "Empty"]
    ELSE ParseFrom(s, 1, Zero(n), topMax)

ParseU32(s) == ParseInt(s, U32Limbs, Base - 1)
ParseI32(s) == ParseInt(s, U32Limbs, HalfBase - 1)
ParseI64(s) == ParseInt(s, I64Limbs, HalfBase - 1)

-------------------------------------------------------------------------------------------------------------------------------------------------
(* Calendar dates (chrono::NaiveDate) *)

\* The range of years a NaiveDate represents.
MAX_YEAR == I32Max \div (2 ^ 13) - 1
MIN_YEAR == -(I32Max \div (2 ^ 13))

Date(y, m, d) == [year |-> y, month |-> m, day |-> d]

\* Stands for "no date" where a field of the state holds none.
NoDate == Date(0, 0, 0)

None == [some |-> FALSE, date |-> NoDate]
Some(d) == [some |-> TRUE, date |-> d]

IsLeap(y) == (y % 4 = 0 /\ y % 100 # 0) \/ y % 400 = 0

DaysInMonth(y, m) ==
    IF m = 2 THEN (IF IsLeap(y) THEN 29 ELSE 28)
    ELSE IF m \in {4, 6, 9, 11} THEN 30 ELSE 31

\* NaiveDate::from_ymd_opt
from_ymd_opt(y, m, d) ==
    IF /\ y >= MIN_YEAR /\ y <= MAX_YEAR
       /\ m >= 1 /\ m <= 12
       /\ d >= 1 /\ d <= DaysInMonth(y, m)
    THEN Some(Date(y, m, d))
    ELSE None

\* The derived ordering of NaiveDate.
DateLT(a, b) ==
    \/ a.year < b.year
    \/ a.year = b.year /\ a.month < b.month
    \/ a.year = b.year /\ a.month = b.month /\ a.day < b.day

DateLE(a, b) == a = b \/ DateLT(a, b)

\* Days since 1970-01-01 of a proleptic Gregorian date: the year counted
\* from March, its 400-year era and its place in the era.
DayOfEra(yoe, mp, d) ==
    yoe * 365 + yoe \div 4 - yoe \div 100 + (153 * mp + 2) \div 5 + d - 1

DaysOfShifted(y, mp, d) ==
    (y \div 400) * 146097 + DayOfEra(y % 400, mp, d) - 719468

DaysFromCivil(dt) ==
    DaysOfShifted(IF dt.month <= 2 THEN dt.year - 1 ELSE dt.year,
                  (dt.month + 9) % 12, dt.day)

\* The date of a day number, by the same reckoning run backwards.
CivilOfMonth(y, m, d) == Date(IF m <= 2 THEN y + 1 ELSE y, m, d)

CivilOfMp(y, doy, mp) ==
    CivilOfMonth(y, IF mp < 10 THEN mp + 3 ELSE mp - 9,
                 doy - (153 * mp + 2) \div 5 + 1)

CivilOfDoy(y, doy) == CivilOfMp(y, doy, (5 * doy + 2) \div 153)

CivilOfYoe(era, doe, yoe) ==
    CivilOfDoy(yoe + era * 400, doe - (365 * yoe + yoe \div 4 - yoe \div 100))

CivilOfEra(era, doe) ==
    CivilOfYoe(era, doe,
        (doe - doe \div 1460 + doe \div 36524 - doe \div 146096) \div 365)

CivilFromDays(z) ==
    CivilOfEra((z + 719468) \div 146097, (z + 719468) % 146097)

MaxDayNumber == DaysFromCivil(Date(MAX_YEAR, 12, 31))

\* NaiveDate::checked_add_months(Months::new(n)), n a u32: the month index
\* year * 12 + month - 1 is advanced with a checked i32 add, the day is
\* clamped to the length of the month reached, and a year outside the
\* representable range gives None.
MonthIndex(dt) == dt.year * 12 + dt.month - 1

ClampDay(year, month, day) ==
    from_ymd_opt(year, month,
        IF day > DaysInMonth(year, month) THEN DaysInMonth(year, month)
        ELSE day)

DateAtMonth(total, day) == ClampDay(total \div 12, (total % 12) + 1, day)

checked_add_months(dt, n) ==
    IF BigIsZero(n) THEN Some(dt)
    ELSE IF ~FitsI32(n) THEN None
    ELSE IF ToInt(n) > I32Max - MonthIndex(dt) THEN None
    ELSE DateAtMonth(MonthIndex(dt) + ToInt(n), dt.day)

\* Duration::days(d), d a non-negative i64: the seconds d * 86400 are
\* computed with a checked multiply and must not exceed i64::MAX / 1000;
\* otherwise the constructor panics ("Duration::days out of bounds").
I64MaxDiv1000 ==
    ParseI64(<<"9","2","2","3","3","7","2","0","3","6","8","5","4","7","7","5">>).val

SecondsInBounds(a, b) ==
    a.carry = 0 /\ b.carry = 0 /\ BigLE(b.limbs, I64MaxDiv1000)

DurationDaysInBounds(d) ==
    SecondsInBounds(MulAdd(d, 864, 0), MulAdd(MulAdd(d, 864, 0).limbs, 100, 0))

\* NaiveDate::checked_add_signed(Duration::days(d)) for an in-bounds
\* duration of d >= 0 days: None when the date reached is past NaiveDate::MAX.
AddDayNumber(z, d) ==
    IF d > MaxDayNumber - z THEN None ELSE Some(CivilFromDays(z + d))

checked_add_days(dt, d) ==
    IF ~FitsI32(d) THEN None ELSE AddDayNumber(DaysFromCivil(dt), ToInt(d))

---------------------------------------------------------------------------
(* The specifier grammar: the Regex of parse_date_range, anchored at both  *)
(* ends.  Four \d (capture y), an optional group of "+" and any number of  *)
(* \d (capture yo), "-", two \d (capture m), an optional group (capture    *)
(* mo), "-", two \d (capture d), an optional group (capture do).           *)

\* s[i .. i+n-1] exists and consists of \d characters.
FixedDigits(s, i, n) ==
    /\ i + n - 1 <= Len(s)
    /\ \A j \in i..(i + n - 1) : IsDigit(s[j])

\* Length of the longest run of \d characters starting at position i.
RECURSIVE DigitRun(_, _)
DigitRun(s, i) ==
    IF i <= Len(s) /\ IsDigit(s[i]) THEN 1 + DigitRun(s, i + 1) ELSE 0

\* An optional group at position i: whether the capture took part in the
\* match, its text, and the position after the group.
Group(p, t, n) == [present |-> p, text |-> t, next |-> n]

GroupOfRun(s, i, n) == Group(TRUE, SubSeq(s, i + 1, i + n), i + 1 + n)

OffsetGroup(s, i) ==
    IF i <= Len(s) /\ s[i] = "+"
    THEN GroupOfRun(s, i, DigitRun(s, i + 1))
    ELSE Group(FALSE, <<>>, i)

\* "-" and two \d at position i.
DashField(s, i) == i <= Len(s) /\ s[i] = "-" /\ FixedDigits(s, i + 1, 2)

NoCaptures ==
    [matched |-> FALSE, y |-> <<>>, m |-> <<>>, d |-> <<>>,
     yo |-> Group(FALSE, <<>>, 0), mo |-> Group(FALSE, <<>>, 0),
     do |-> Group(FALSE, <<>>, 0)]

\* re.captures(date_range), field by field from the left.
CapturesEnd(s, yo, mo, do) ==
    IF do.next # Len(s) + 1 THEN NoCaptures
    ELSE [matched |-> TRUE,
          y |-> SubSeq(s, 1, 4),
          m |-> SubSeq(s, yo.next + 1, yo.next + 2),
          d |-> SubSeq(s, mo.next + 1, mo.next + 2),
          yo |-> yo, mo |-> mo, do |-> do]

CapturesDay(s, yo, mo) ==
    IF ~DashField(s, mo.next) THEN NoCaptures
    ELSE CapturesEnd(s, yo, mo, OffsetGroup(s, mo.next + 3))

CapturesMonth(s, yo) ==
    IF ~DashField(s, yo.next) THEN NoCaptures
    ELSE CapturesDay(s, yo, OffsetGroup(s, yo.next + 3))

Captures(s) ==
    IF ~FixedDigits(s, 1, 4) THEN NoCaptures
    ELSE CapturesMonth(s, OffsetGroup(s, 5))

---------------------------------------------------------------------------
(* DateStep and DateIter *)

Days(n) == [kind |-> "Days", n |-> n]
Months(n) == [kind |-> "Months", n |-> n]
Years(n) == [kind |-> "Years", n |-> n]

DateIter(c, e, s, f) == [current |-> c, end |-> e, step |-> s, finished |-> f]

NoIter == DateIter(NoDate, NoDate, Days(0), FALSE)

---------------------------------------------------------------------------
(* parse_date_range *)

\* What a call produces: tag "Ok" with the iterator and the values of the
\* locals it was built from, tag "Err" with the message of the error value
\* returned, or tag "Panic" when the call aborts the program; in each case
\* with the captures of the match.
Outcome(tag, msg, caps, start, yo, mo, do, iter) ==
    [tag |-> tag, msg |-> msg, caps |-> caps, start |-> start,
     years_offset |-> yo, months_offset |-> mo, days_offset |-> do,
     iter |-> iter]

Failed(tag, msg, caps) ==
    Outcome(tag, msg, caps, NoDate, Zero(U32Limbs), Zero(U32Limbs),
            Zero(I64Limbs), NoIter)

\* (variant: the magnitude of the difference instead of the clamp)
ClampDiffMagnitude(diff) == IF diff < 0 THEN 0 - diff ELSE diff

\* The clamp applied to each auto difference: if diff < 0 { 0 } else { diff }
ClampDiff(diff) == IF diff < 0 THEN 0 ELSE diff

YearsAuto(now, start) == ClampDiff(now.year - start.year)
MonthsAuto(now, start) == ClampDiff(now.month - start.month)
DaysAuto(now, start) == ClampDiff(now.day - start.day)

\* Each offset as the code resolves it: absent -> 0, "+" alone -> the
\* clamped difference to now, "+digits" -> parse::<T>().unwrap().
\* ok = FALSE is the unwrap of a parse error (a panic).
Resolved(ok, val) == [ok |-> ok, val |-> val]

Unwrap(r) == Resolved(r.ok, r.val)

years_offset_of(caps, now, start) ==
    IF ~caps.yo.present THEN Resolved(TRUE, Zero(U32Limbs))
    ELSE IF caps.yo.text = <<>>
    THEN Resolved(TRUE, FromInt(YearsAuto(now, start), U32Limbs))
    ELSE Unwrap(ParseU32(caps.yo.text))

months_offset_of(caps, now, start) ==
    IF ~caps.mo.present THEN Resolved(TRUE, Zero(U32Limbs))
    ELSE IF caps.mo.text = <<>>
    THEN Resolved(TRUE, FromInt(MonthsAuto(now, start), U32Limbs))
    ELSE Unwrap(ParseU32(caps.mo.text))

days_offset_of(caps, now, start) ==
    IF ~caps.do.present THEN Resolved(TRUE, Zero(I64Limbs))
    ELSE IF caps.do.text = <<>>
    THEN Resolved(TRUE, FromInt(DaysAuto(now, start), I64Limbs))
    ELSE Unwrap(ParseI64(caps.do.text))

\* The end date, lines 184-194, statement by statement.  tag "Ok" carries
\* the date, "Err" the message of the error returned, "Panic" the abort.
EndResult(tag, msg, end) == [tag |-> tag, msg |-> msg, end |-> end]

\* end.checked_add_signed(Duration::days(days_offset)).ok_or(..)?
AfterDays(e) ==
    IF e.some THEN EndResult("Ok", "", e.date)
    ELSE EndResult("Err", "invalid end date(d)", NoDate)

\* if days_offset > 0 { .. }
EndDays(end, days_offset) ==
    IF BigIsZero(days_offset) THEN EndResult("Ok", "", end)
    ELSE IF ~DurationDaysInBounds(days_offset)
    THEN EndResult("Panic", "Duration::days out of bounds", NoDate)
    ELSE AfterDays(checked_add_days(end, days_offset))

\* end.checked_add_months(Months::new(..)).ok_or("invalid end date(m)")?
AfterMonths(e, days_offset) ==
    IF e.some THEN EndDays(e.date, days_offset)
    ELSE EndResult("Err", "invalid end date(m)", NoDate)

\* (variant: the months count is added)
MonthsIncrementOfMonths(years_offset, months_offset) == months_offset

\* The number of months of the second increment (line 190).
MonthsIncrement(years_offset, months_offset) == years_offset

\* if months_offset > 0 { .. }
EndMonths(end, years_offset, months_offset, days_offset) ==
    IF BigIsZero(months_offset) THEN EndDays(end, days_offset)
    ELSE AfterMonths(
             checked_add_months(end, MonthsIncrement(years_offset, months_offset)),
             days_offset)

\* end.checked_add_months(Months::new(12 * years_offset)).ok_or(..)?
AfterYears(e, years_offset, months_offset, days_offset) ==
    IF e.some THEN EndMonths(e.date, years_offset, months_offset, days_offset)
    ELSE EndResult("Err", "invalid end date(y)", NoDate)

\* The u32 product 12 * years_offset (prod) panics on overflow in a build
\* with overflow checks and wraps in a build without them.
EndYears(start, prod, years_offset, months_offset, days_offset, overflow_checks) ==
    IF prod.carry > 0 /\ overflow_checks
    THEN EndResult("Panic", "attempt to multiply with overflow", NoDate)
    ELSE AfterYears(checked_add_months(start, prod.limbs),
                    years_offset, months_offset, days_offset)

\* let mut end = start; if years_offset > 0 { .. }
EndDate(start, years_offset, months_offset, days_offset, overflow_checks) ==
    IF BigIsZero(years_offset)
    THEN EndMonths(start, years_offset, months_offset, days_offset)
    ELSE EndYears(start, MulAdd(years_offset, 12, 0), years_offset,
                  months_offset, days_offset, overflow_checks)

\* (variant: years before months before days)
StepOfYearsFirst(years_offset, months_offset, days_offset) ==
    IF ~BigIsZero(years_offset) THEN Years(1)
    ELSE IF ~BigIsZero(months_offset) THEN Months(1)
    ELSE IF ~BigIsZero(days_offset) THEN Days(1)
    ELSE Days(0)

\* The step, lines 196-204.
StepOf(years_offset, months_offset, days_offset) ==
    IF ~BigIsZero(days_offset) THEN Days(1)
    ELSE IF ~BigIsZero(months_offset) THEN Months(1)
    ELSE IF ~BigIsZero(years_offset) THEN Years(1)
    ELSE Days(0)

\* Ok(DateIter { current: start, end: end, step: step, finished: false })
BuildIter(caps, start, yo, mo, do, e) ==
    IF e.tag # "Ok" THEN Failed(e.tag, e.msg, caps)
    ELSE Outcome("Ok", "", caps, start, yo, mo, do,
                 DateIter(start, e.end, StepOf(yo, mo, do), FALSE))

\* The three offsets unwrapped (lines 154-182), then the end date.
WithOffsets(caps, start, yo, mo, do, overflow_checks) ==
    IF ~(yo.ok /\ mo.ok /\ do.ok)
    THEN Failed("Panic", "called Result::unwrap() on an Err value", caps)
    ELSE BuildIter(caps, start, yo.val, mo.val, do.val,
                   EndDate(start, yo.val, mo.val, do.val, overflow_checks))

\* NaiveDate::from_ymd_opt(..).unwrap(), line 152.
WithAnchor(caps, anchor, now, overflow_checks) ==
    IF ~anchor.some
    THEN Failed("Panic", "called Option::unwrap() on a None value", caps)
    ELSE WithOffsets(caps, anchor.date,
                     years_offset_of(caps, now, anchor.date),
                     months_offset_of(caps, now, anchor.date),
                     days_offset_of(caps, now, anchor.date),
                     overflow_checks)

\* caps["y"].parse()?, caps["m"].parse()?, caps["d"].parse()?, lines 149-151.
WithFields(caps, y, m, d, now, overflow_checks) ==
    IF ~(y.ok /\ m.ok /\ d.ok)
    THEN Failed("Err", "invalid digit found in string", caps)
    ELSE WithAnchor(caps, from_ymd_opt(ToInt(y.val), ToInt(m.val), ToInt(d.val)),
                    now, overflow_checks)

\* re.captures(date_range).ok_or("invalid date range")?, lines 144-146.
WithCaptures(caps, now, overflow_checks) ==
    IF ~caps.matched THEN Failed("Err", "invalid date range", caps)
    ELSE WithFields(caps, ParseI32(caps.y), ParseU32(caps.m), ParseU32(caps.d),
                    now, overflow_checks)

parse_date_range(date_range, now, overflow_checks) ==
    WithCaptures(Captures(date_range), now, overflow_checks)

---------------------------------------------------------------------------
(* DateIter::next *)

\* The date one step after current, or None when it is not representable.
Advance(current, step) ==
    CASE step.kind = "Days" ->
            checked_add_days(current, FromInt(step.n, I64Limbs))
      [] step.kind = "Months" ->
            checked_add_months(current, FromInt(step.n, U32Limbs))
      [] step.kind = "Years" ->
            checked_add_months(current, FromInt(12 * step.n, U32Limbs))

\* The iterator after a yield: finished on the step Days(0) and when the
\* next date is not representable, else moved to the next date.
Stepped(it, nxt) ==
    IF it.step = Days(0) THEN [it EXCEPT !.finished = TRUE]
    ELSE IF nxt.some THEN [it EXCEPT !.current = nxt.date]
    ELSE [it EXCEPT !.finished = TRUE]

\* (variant: the end date itself is not yielded)
IterDoneAtEnd(it) == it.finished \/ DateLE(it.end, it.current)

\* (variant: the finished flag is not consulted)
IterDoneByDateOnly(it) == DateLT(it.end, it.current)

\* if self.finished || self.current > self.end { return None; }
IterDone(it) == it.finished \/ DateLT(it.end, it.current)

\* next(&mut self): the value returned and the iterator left behind.
DateIterNext(it) ==
    IF IterDone(it)
    THEN [ret |-> None, it |-> it]
    ELSE [ret |-> Some(it.current), it |-> Stepped(it, Advance(it.current, it.step))]

---------------------------------------------------------------------------
(* The specifiers and reference dates the model runs on *)

MaxYearsOffset == 2
MaxMonthsOffset == 3
MaxDaysOffset == 10

\* Decimal text of a natural number, and zero-padded to a width.
RECURSIVE Decimal(_)
Decimal(n) ==
    IF n < 10 THEN <<DigitChar(n)>>
    ELSE Append(Decimal(n \div 10), DigitChar(n % 10))

RECURSIVE Padded(_, _)
Padded(n, w) ==
    IF w = 0 THEN <<>>
    ELSE Append(Padded(n \div 10, w - 1), DigitChar(n % 10))

\* Text of a digit string given as a tuple of digit values.
Text(ds) == [i \in 1..Len(ds) |-> DigitChar(ds[i])]

Absent == <<>>
Auto == <<"+">>
Explicit(digits) == <<"+">> \o digits

Specifier(y, yo, m, mo, d, do) ==
    y \o yo \o <<"-">> \o m \o mo \o <<"-">> \o d \o do

Anchor(y, m, d) == <<Padded(y, 4), Padded(m, 2), Padded(d, 2)>>

Plain(a) == Specifier(a[1], Absent, a[2], Absent, a[3], Absent)

\* Small offsets on an ordinary, a month-end and a leap-day anchor.
SmallAnchors ==
    {Anchor(2020, 6, 15), Anchor(2020, 1, 31), Anchor(2020, 2, 29)}

SmallYears == {Absent, Auto} \cup {Explicit(Decimal(n)) : n \in 0..MaxYearsOffset}
SmallMonths == {Absent, Auto} \cup {Explicit(Decimal(n)) : n \in 0..MaxMonthsOffset}
SmallDays == {Absent, Auto} \cup {Explicit(Decimal(n)) : n \in {0, MaxDaysOffset}}

SmallSpecifiers ==
    {Specifier(a[1], yo, a[2], mo, a[3], do) :
        a \in SmallAnchors, yo \in SmallYears, mo \in SmallMonths, do \in SmallDays}

\* Auto offsets on anchors long before, within and after the reference dates.
AutoAnchors ==
    {Anchor(2000, 1, 1), Anchor(2024, 2, 29), Anchor(2030, 12, 31)}

AutoSpecifiers ==
    {Specifier(a[1], yo, a[2], mo, a[3], do) :
        a \in AutoAnchors, yo \in {Absent, Auto}, mo \in {Absent, Auto},
        do \in {Absent, Auto}}

\* Offsets at the edges of the integer types and of the date range, each
\* on the last four-digit date.
LastAnchor == Anchor(9999, 12, 31)
YearsToMax == MAX_YEAR - 9999

U32MaxText == Text(<<4,2,9,4,9,6,7,2,9,5>>)
U32OverText == Text(<<4,2,9,4,9,6,7,2,9,6>>)
WrapYearsText == Text(<<3,5,7,9,1,3,9,4,2>>)
I64MaxText == Text(<<9,2,2,3,3,7,2,0,3,6,8,5,4,7,7,5,8,0,7>>)
I64OverText == Text(<<9,2,2,3,3,7,2,0,3,6,8,5,4,7,7,5,8,0,8>>)
DurationMaxText == Text(<<1,0,6,7,5,1,9,9,1,1,6,7>>)
DurationOverText == Text(<<1,0,6,7,5,1,9,9,1,1,6,8>>)

EdgeYears ==
    {Explicit(Decimal(YearsToMax)), Explicit(Decimal(YearsToMax + 1)),
     Explicit(WrapYearsText), Explicit(U32MaxText), Explicit(U32OverText),
     Explicit(<<ArabicThree>>)}

EdgeMonths ==
    {Explicit(U32MaxText), Explicit(U32OverText), Explicit(<<ArabicThree>>)}

EdgeDays ==
    {Explicit(Decimal(1)), Explicit(Decimal(MaxDayNumber)),
     Explicit(DurationMaxText), Explicit(DurationOverText),
     Explicit(I64MaxText), Explicit(I64OverText), Explicit(<<ArabicThree>>)}

EdgeSpecifiers ==
    LET a == LastAnchor
    IN  {Specifier(a[1], yo, a[2], Absent, a[3], Absent) : yo \in EdgeYears}
        \cup {Specifier(a[1], Absent, a[2], mo, a[3], Absent) : mo \in EdgeMonths}
        \cup {Specifier(a[1], Absent, a[2], Absent, a[3], do) : do \in EdgeDays}
        \cup {Specifier(a[1], Explicit(Decimal(YearsToMax)), a[2],
                        Explicit(Decimal(1)), a[3], Absent),
              Specifier(a[1], Explicit(WrapYearsText), a[2],
                        Explicit(Decimal(1)), a[3], Absent),
              Specifier(a[1], Explicit(WrapYearsText), a[2], Absent, a[3],
                        Explicit(Decimal(1)))}

\* Specifiers that match the grammar with an anchor that is no date.
InvalidAnchors ==
    {Anchor(2023, 2, 29), Anchor(2020, 13, 1), Anchor(2020, 6, 0),
     Anchor(2020, 0, 10), Anchor(2021, 4, 31), Anchor(1900, 2, 29)}

InvalidAnchorSpecifiers ==
    {Plain(a) : a \in InvalidAnchors}
    \cup {Specifier(a[1], Explicit(Decimal(1)), a[2], Absent, a[3], Auto) :
             a \in InvalidAnchors}

\* A year written with a digit outside ASCII.
ForeignDigitSpecifiers ==
    {Specifier(<<"2", "0", "2", ArabicThree>>, Absent, Padded(6, 2), Absent,
               Padded(15, 2), Absent),
     Specifier(Padded(2020, 4), Absent, <<"0", ArabicThree>>, Absent,
               Padded(15, 2), Absent)}

\* Strings outside the grammar.
MalformedSpecifiers ==
    {<<>>,
     Padded(2020, 4) \o <<"-">> \o Padded(6, 1) \o <<"-">> \o Padded(15, 2),
     Padded(2000, 4) \o <<"-">> \o Padded(1, 2) \o <<"-">> \o Padded(1, 2)
         \o <<"+", "5", "-", "-">> \o Padded(1, 2),
     Plain(Anchor(2020, 6, 15)) \o <<"x">>,
     <<" ">> \o Plain(Anchor(2020, 6, 15)),
     Padded(2020, 4) \o Padded(6, 2) \o Padded(15, 2),
     Padded(2020, 4) \o <<"+", "-", "1">> \o <<"-">> \o Padded(6, 2)
         \o <<"-">> \o Padded(15, 2)}

Specifiers ==
    SmallSpecifiers \cup AutoSpecifiers \cup EdgeSpecifiers
        \cup InvalidAnchorSpecifiers
        \cup ForeignDigitSpecifiers \cup MalformedSpecifiers

\* Reference dates (the civil date of Utc::now()).
Nows == {Date(2023, 6, 10), Date(2024, 1, 5)}

---------------------------------------------------------------------------
(* The state machine: main's use of one calendar entry *)

VARIABLES
    date_range,   \* the specifier, a key of the calendar
    now,          \* the reference date
    pc,           \* "parse", "iterate", "error" (Err returned), "abort" (panic)
    res,          \* what parse_date_range produced
    range,        \* the DateIter being driven
    ret,          \* what the last call of next returned
    first,        \* the first date yielded
    last,         \* the latest date yielded
    prev,         \* the date yielded before the latest
    count,        \* the number of dates yielded
    ended         \* next has returned None

vars == <<date_range, now, pc, res, range, ret, first, last, prev, count, ended>>

Pending == Failed("Pending", "", NoCaptures)

Init ==
    /\ date_range \in Specifiers
    /\ now \in Nows
    /\ pc = "parse"
    /\ res = Pending
    /\ range = NoIter
    /\ ret = None
    /\ first = None
    /\ last = None
    /\ prev = None
    /\ count = 0
    /\ ended = FALSE

\* Where main stands after the call: driving the iterator, returning the
\* error (the ? of line 238), or aborted by the panic.
PcAfter(tag) ==
    CASE tag = "Ok" -> "iterate" [] tag = "Err" -> "error" [] tag = "Panic" -> "abort"

\* let mut range = parse_date_range(&date, now)?  -- a range is returned
ParseOk ==
    /\ pc = "parse"
    /\ \E overflow_checks \in BOOLEAN :
          \E r \in {parse_date_range(date_range, now, overflow_checks)} :
              /\ r.tag = "Ok"
              /\ res' = r
              /\ range' = r.iter
    /\ pc' = PcAfter("Ok")
    /\ UNCHANGED <<date_range, now, ret, first, last, prev, count, ended>>

\* ... -- an error value is returned, and main returns it
ParseErr ==
    /\ pc = "parse"
    /\ \E overflow_checks \in BOOLEAN :
          \E r \in {parse_date_range(date_range, now, overflow_checks)} :
              /\ r.tag = "Err"
              /\ res' = r
    /\ pc' = PcAfter("Err")
    /\ UNCHANGED <<date_range, now, range, ret, first, last, prev, count, ended>>

\* ... -- the call panics and the program aborts
ParsePanic ==
    /\ pc = "parse"
    /\ \E overflow_checks \in BOOLEAN :
          \E r \in {parse_date_range(date_range, now, overflow_checks)} :
              /\ r.tag = "Panic"
              /\ res' = r
    /\ pc' = PcAfter("Panic")
    /\ UNCHANGED <<date_range, now, range, ret, first, last, prev, count, ended>>

\* range.next() yields a date (main's for loop, or any caller)
NextSome ==
    /\ pc = "iterate"
    /\ \E n \in {DateIterNext(range)} :
          /\ n.ret.some
          /\ range' = n.it
          /\ ret' = n.ret
          /\ last' = n.ret
          /\ first' = IF count = 0 THEN n.ret ELSE first
    /\ prev' = last
    /\ count' = count + 1
    /\ UNCHANGED <<date_range, now, pc, res, ended>>

\* range.next() returns None
NextNone ==
    /\ pc = "iterate"
    /\ \E n \in {DateIterNext(range)} :
          /\ ~n.ret.some
          /\ range' = n.it
          /\ ret' = n.ret
    /\ ended' = TRUE
    /\ UNCHANGED <<date_range, now, pc, res, first, last, prev, count>>

Next == ParseOk \/ ParseErr \/ ParsePanic \/ NextSome \/ NextNone

Spec == Init /\ [][Next]_vars

---------------------------------------------------------------------------
(* Vocabulary of the properties *)

\* The captures of the match, once parse_date_range has been called.
Caps == res.caps

IsAbsent(g) == ~g.present
IsAuto(g) == g.present /\ g.text = <<>>
IsExplicit(g) == g.present /\ g.text # <<>>

Max0(x) == IF x < 0 THEN 0 ELSE x
Min2(a, b) == IF a < b THEN a ELSE b

\* The anchor fields as numbers, where the three captures are ASCII digits.
AnchorParses == ParseI32(Caps.y).ok /\ ParseU32(Caps.m).ok /\ ParseU32(Caps.d).ok
AnchorYear == ToInt(ParseI32(Caps.y).val)
AnchorMonth == ToInt(ParseU32(Caps.m).val)
AnchorDay == ToInt(ParseU32(Caps.d).val)

\* The anchor fields form a date of the calendar.
AnchorIsDate ==
    /\ AnchorMonth \in 1..12
    /\ AnchorDay >= 1
    /\ AnchorDay <= DaysInMonth(AnchorYear, AnchorMonth)

ValidAnchor == Caps.matched /\ AnchorParses /\ AnchorIsDate
AnchorDate == Date(AnchorYear, AnchorMonth, AnchorDay)

\* The error kinds of the specification, by the message of the error value.
MalformedSpecifier == {"invalid date range", "invalid digit found in string"}
DateOverflow == {"invalid end date(y)", "invalid end date(m)", "invalid end date(d)"}

\* parse_date_range has returned, with a range / with an error value.
Called == pc # "parse"
Returned == pc = "iterate"
ReturnedErr(kinds) == pc = "error" /\ res.tag = "Err" /\ res.msg \in kinds

\* A date advanced by k calendar months, the day clamped to the month end.
PlusMonths(dt, k) ==
    LET t == dt.year * 12 + (dt.month - 1) + k
        y == t \div 12
        m == (t % 12) + 1
    IN  Date(y, m, Min2(dt.day, DaysInMonth(y, m)))

\* A resolved offset is a small number (no more than the years of the range).
Small(x) == FitsI32(x) /\ ToInt(x) <= MAX_YEAR

---------------------------------------------------------------------------
(* C1 *)

\* C1: a specifier that matches the grammar but whose anchor is no calendar
\* date (2023-02-29, month 13, day 00) makes parse_date_range return an
\* error value instead of aborting, and the leap day 2024-02-29 parses.
C1_InvalidAnchorReturnsError ==
    Called =>
        /\ (Caps.matched /\ AnchorParses /\ ~AnchorIsDate) => pc = "error"
        /\ date_range = Plain(Anchor(2024, 2, 29)) => Returned

---------------------------------------------------------------------------
(* C2 *)

OffsetUnparsable ==
    \/ IsExplicit(Caps.yo) /\ ~ParseU32(Caps.yo.text).ok
    \/ IsExplicit(Caps.mo) /\ ~ParseU32(Caps.mo.text).ok
    \/ IsExplicit(Caps.do) /\ ~ParseI64(Caps.do.text).ok

\* C2: with a valid anchor, an explicit offset whose digits do not parse as
\* an integer of the field's type makes parse_date_range return a
\* MalformedSpecifier error value instead of aborting.
C2_UnparsableOffsetReturnsError ==
    (Called /\ ValidAnchor /\ OffsetUnparsable) => ReturnedErr(MalformedSpecifier)

---------------------------------------------------------------------------
(* C3 *)

OffsetsParse == ValidAnchor /\ ~OffsetUnparsable

YearsOf == years_offset_of(Caps, now, AnchorDate).val
MonthsOf == months_offset_of(Caps, now, AnchorDate).val
DaysOf == days_offset_of(Caps, now, AnchorDate).val

\* The exact end date lies past the last representable date: the years
\* alone, the years and the month increment, or the days alone carry it
\* there.
LeavesRange ==
    \/ /\ ~BigIsZero(YearsOf)
       /\ ~(Small(YearsOf) /\ ToInt(YearsOf) <= MAX_YEAR - AnchorYear)
    \/ /\ ~BigIsZero(YearsOf) /\ ~BigIsZero(MonthsOf) /\ Small(YearsOf)
       /\ MonthIndex(AnchorDate) + 13 * ToInt(YearsOf) > MAX_YEAR * 12 + 11
    \/ /\ ~BigIsZero(DaysOf)
       /\ ~(FitsI32(DaysOf)
            /\ ToInt(DaysOf) <= MaxDayNumber - DaysFromCivil(AnchorDate))

\* C3: when the end-date computation leaves the representable range,
\* parse_date_range returns a DateOverflow error value: it neither aborts
\* nor returns a range built from a wrapped or truncated amount.
C3_OverflowReturnsDateOverflow ==
    (Called /\ OffsetsParse /\ LeavesRange) => ReturnedErr(DateOverflow)

---------------------------------------------------------------------------
(* C4 *)

OnlyMonthsExplicit ==
    IsAbsent(Caps.yo) /\ IsExplicit(Caps.mo) /\ IsAbsent(Caps.do)

\* C4: with only an explicit months offset n > 0, the end date is the
\* anchor advanced by n calendar months (day clamped to the month end);
\* 2020-01-31 with +1 month ends on 2020-02-29.
C4_MonthsOffsetAdvancesEnd ==
    /\ (Returned /\ OnlyMonthsExplicit /\ Small(res.months_offset)
            /\ ~BigIsZero(res.months_offset))
          => res.iter.end = PlusMonths(res.start, ToInt(res.months_offset))
    /\ (Returned /\ date_range = Specifier(Padded(2020, 4), Absent, Padded(1, 2),
                                           Explicit(Decimal(1)), Padded(31, 2), Absent))
          => res.iter.end = Date(2020, 2, 29)

---------------------------------------------------------------------------
(* C5 *)

\* C5: with resolved years y > 0 and months m > 0 and no days, the end
\* date is the anchor plus 12*y months and then plus y months (the years
\* count, not m).
C5_MonthsIncrementIsYears ==
    (Returned /\ ~BigIsZero(res.years_offset) /\ ~BigIsZero(res.months_offset)
        /\ BigIsZero(res.days_offset))
      => /\ Small(res.years_offset)
         /\ res.iter.end =
               PlusMonths(PlusMonths(res.start, 12 * ToInt(res.years_offset)),
                          ToInt(res.years_offset))

\* Years +2 and months +3 on 2020-01-31: two years and two months later.
C5_Witness ==
    /\ Returned
    /\ date_range = Specifier(Padded(2020, 4), Explicit(Decimal(2)), Padded(1, 2),
                              Explicit(Decimal(3)), Padded(31, 2), Absent)
    /\ res.iter.end = Date(2022, 3, 31)

---------------------------------------------------------------------------
(* C6 *)

AutoYearsExample ==
    /\ date_range = Specifier(Padded(2000, 4), Auto, Padded(1, 2), Absent,
                              Padded(1, 2), Absent)
    /\ now = Date(2023, 6, 10)

\* C6: an auto offset resolves to max(0, now.year - anchor.year), max(0,
\* now.month - anchor.month), max(0, now.day - anchor.day), each on its own;
\* anchor 2000-01-01 with auto years at 2023-06-10 resolves to 23 years,
\* step one year, end 2023-01-01 and 24 dates.
C6_AutoOffsets ==
    Returned =>
        /\ IsAuto(Caps.yo) =>
              res.years_offset = FromInt(Max0(now.year - AnchorYear), U32Limbs)
        /\ IsAuto(Caps.mo) =>
              res.months_offset = FromInt(Max0(now.month - AnchorMonth), U32Limbs)
        /\ IsAuto(Caps.do) =>
              res.days_offset = FromInt(Max0(now.day - AnchorDay), I64Limbs)
        /\ AutoYearsExample =>
              /\ ToInt(res.years_offset) = 23
              /\ res.iter.step = Years(1)
              /\ res.iter.end = Date(2023, 1, 1)
              /\ count <= 24
              /\ ended => count = 24

\* The example run to its end, and a difference below zero clamped.
C6_Witness ==
    /\ AutoYearsExample /\ ended /\ count = 24
    /\ last = Some(Date(2023, 1, 1))

C6_WitnessClamped ==
    /\ Returned /\ IsAuto(Caps.yo) /\ now.year < AnchorYear
    /\ BigIsZero(res.years_offset)

---------------------------------------------------------------------------
(* C7 *)

NoPlus == \A i \in 1..Len(date_range) : date_range[i] # "+"

\* C7: the step is one day if the resolved days are > 0, else one month if
\* the resolved months are > 0, else one year if the resolved years are
\* > 0, else no repetition; without repetition (every specifier with no
\* "+") the sequence is exactly the anchor.
C7_StepSelection ==
    Returned =>
        /\ res.iter.step =
              (IF ~BigIsZero(res.days_offset) THEN Days(1)
               ELSE IF ~BigIsZero(res.months_offset) THEN Months(1)
               ELSE IF ~BigIsZero(res.years_offset) THEN Years(1)
               ELSE Days(0))
        /\ NoPlus => res.iter.step = Days(0)
        /\ res.iter.step = Days(0) =>
              /\ count <= 1
              /\ count = 1 => first = Some(AnchorDate) /\ last = Some(AnchorDate)
              /\ ended => count = 1

\* A single-date sequence run to its end, and a days-over-years choice.
C7_Witness ==
    /\ Returned /\ NoPlus /\ ended /\ count = 1 /\ last = Some(AnchorDate)

C7_WitnessPriority ==
    /\ Returned /\ res.iter.step = Days(1)
    /\ ~BigIsZero(res.years_offset) /\ ~BigIsZero(res.months_offset)

---------------------------------------------------------------------------
(* C8 *)

OnlyDaysExplicit ==
    IsAbsent(Caps.yo) /\ IsAbsent(Caps.mo) /\ IsExplicit(Caps.do)

\* C8: with only an explicit days offset n > 0, the sequence is exactly
\* the n+1 consecutive dates anchor, anchor + 1 day, ..., anchor + n days.
C8_ConsecutiveDays ==
    (Returned /\ OnlyDaysExplicit /\ ~BigIsZero(res.days_offset)) =>
        /\ count <= ToInt(res.days_offset) + 1
        /\ count >= 1 =>
              /\ first = Some(AnchorDate)
              /\ DaysFromCivil(last.date) = DaysFromCivil(AnchorDate) + count - 1
        /\ count >= 2 =>
              DaysFromCivil(last.date) = DaysFromCivil(prev.date) + 1
        /\ ended => count = ToInt(res.days_offset) + 1

\* 2020-06-15 with +10: eleven dates, the last 2020-06-25.
C8_Witness ==
    /\ date_range = Specifier(Padded(2020, 4), Absent, Padded(6, 2), Absent,
                              Padded(15, 2), Explicit(Decimal(MaxDaysOffset)))
    /\ ended
    /\ count = MaxDaysOffset + 1
    /\ last = Some(CivilFromDays(DaysFromCivil(Date(2020, 6, 15)) + MaxDaysOffset))

---------------------------------------------------------------------------
(* C9 *)

\* C9: the dates yielded run from the anchor to the resolved end date
\* inclusive: the first is the anchor and the last is the end date, for
\* every step and every anchor.
C9_LastYieldedIsEnd ==
    (Returned /\ ended) =>
        /\ first = Some(res.start)
        /\ last = Some(res.iter.end)

---------------------------------------------------------------------------
(* C10 *)

\* Advancing the date held would leave the representable range.
AdvanceOverflows ==
    /\ Returned /\ ~range.finished /\ DateLE(range.current, range.end)
    /\ range.step # Days(0)
    /\ ~Advance(range.current, range.step).some

InOrder ==
    (Returned /\ count >= 1) =>
        /\ DateLE(res.start, last.date)
        /\ DateLE(last.date, res.iter.end)
        /\ count >= 2 => DateLT(prev.date, last.date)

\* No more dates are yielded than there are days from the anchor to the end
\* date, so only finitely many calls can return a date.
Bounded ==
    Returned =>
        count <= DaysFromCivil(res.iter.end) - DaysFromCivil(res.start) + 1

\* C10: the dates yielded increase strictly and lie between the anchor and
\* the end date; after finitely many calls next returns None, and then
\* None on every later call; when advancing would leave the representable
\* range, the date held is still yielded and the sequence ends, without an
\* error.
C10_FiniteIncreasing ==
    /\ []InOrder
    /\ []Bounded
    /\ [][ended => (ended' /\ ~ret'.some /\ count' = count /\ pc' = pc)]_vars
    /\ [][AdvanceOverflows =>
            (ret' = Some(range.current) /\ range'.finished /\ pc' = "iterate")]_vars

\* The iterator that ran into the last representable year and ended there.
C10_Witness ==
    /\ Returned /\ ended /\ range.finished /\ range.step = Years(1)
    /\ last = Some(Date(MAX_YEAR, 12, 31))
    /\ count = YearsToMax + 1

=============================================================================
